---- MODULE Spec2Model ----
(***************************************************************************)
(* A model of the HTML editor's client state: the editor store (tabs,      *)
(* active tab, session), the file store with its REST backend and its      *)
(* local-storage mirror, the editor widget and the preview pane.           *)
(*                                                                         *)
(* Every JavaScript handler runs to completion, so a handler is one        *)
(* action; an async function is cut at each await of a server request.     *)
(* File names are sequences of one-character strings, so that the code's   *)
(* split, endsWith, startsWith and toLowerCase are computed, not assumed.  *)
(***************************************************************************)
EXTENDS Integers, Sequences, FiniteSets, TLC

\* ------------------------------------------------------------- bounds
\* Number of tab ids the id generator hands out in one run.
MaxIds == 2
\* Number of file-store calls awaiting the server at the same time, where
\* calls overlap.
MaxOps == 2
\* The same, where one call is studied after another.
MaxCalls == 1
\* Entries of the file store's list (concurrent calls can add a name twice).
MaxFiles == 2
\* Pending zero-delay timers of one kind that are told apart (more are
\* indistinguishable from MaxTimers: each one saves the state of its moment).
MaxTimers == 1
\* Number of tab ids handed out where the order of the open tabs is studied.
MaxTabs == 3
\* Entries of the files list that the explorer's tree is built from.
MaxTreeFiles == 3
\* Ticks of the clock that a debounced function is watched for.
MaxTime == 4
\* The wait of debounce(func, wait), in ticks of the clock.
WaitTicks == 2

\* activeTab: null (ids start at 1)
Null == 0

\* ------------------------------------------------------------- strings
NameEmpty == << >>
NameA == <<"a", ".", "h", "t", "m", "l">>
NameB == <<"d", "/", "b", ".", "J", "S">>

\* String.prototype.toLowerCase on one character
LowerChar(c) ==
  CASE c = "H" -> "h"
    [] c = "T" -> "t"
    [] c = "M" -> "m"
    [] c = "L" -> "l"
    [] c = "J" -> "j"
    [] c = "S" -> "s"
    [] OTHER -> c

ToLowerCase(s) == [i \in 1..Len(s) |-> LowerChar(s[i])]

\* String.prototype.split(sep) for a one-character separator
RECURSIVE SplitFrom(_, _, _, _)
SplitFrom(s, sep, i, cur) ==
  IF i > Len(s) THEN <<cur>>
  ELSE IF s[i] = sep THEN <<cur>> \o SplitFrom(s, sep, i + 1, << >>)
  ELSE SplitFrom(s, sep, i + 1, Append(cur, s[i]))

Split(s, sep) == SplitFrom(s, sep, 1, << >>)

StartsWith(s, p) == Len(p) <= Len(s) /\ SubSeq(s, 1, Len(p)) = p

getFileExtension(fileName) ==
  LET parts == Split(fileName, ".")
  IN IF Len(parts) > 1 THEN parts[Len(parts)] ELSE << >>

getLanguageFromFileName(fileName) ==
  LET ext == ToLowerCase(getFileExtension(fileName))
  IN CASE ext = <<"h", "t", "m", "l">> -> "html"
       [] ext = <<"h", "t", "m">> -> "html"
       [] ext = <<"c", "s", "s">> -> "css"
       [] ext = <<"j", "s">> -> "javascript"
       [] ext = <<"t", "s">> -> "typescript"
       [] ext = <<"j", "s", "o", "n">> -> "json"
       [] ext = <<"m", "d">> -> "markdown"
       [] OTHER -> "plaintext"

\* beautifyHtml on the contents of the model: two adjacent tags are put on two
\* lines and the second is indented; text so laid out is returned as it is.
beautifyHtml(html) ==
  CASE html = "<a><b>" -> "<a>\n  <b>"
    [] OTHER -> html

\* ------------------------------------------------------------- domains
FileNames == {NameA, NameB}
TabNames == FileNames \cup {NameEmpty}
Contents == {"<a><b>", "<a>\n  <b>"}
FolderPaths == {<<"d">>}
\* Names typed at the explorer's prompt: a, b/a, b/b, b//a and /b/a
TreeNames == {<<"a">>, <<"b", "/", "a">>, <<"b", "/", "b">>,
              <<"b", "/", "/", "a">>, <<"/", "b", "/", "a">>}

\* ------------------------------------------------------------- state
VARIABLES
  tabs,           \* editor store: EditorTab[]
  activeTab,      \* editor store: id of the active tab, or Null
  theme,          \* editor store: 'light' or 'dark'
  nextId,         \* uuidv4: the next fresh id
  session,        \* localStorage['editor-session']
  sessionTimers,  \* pending setTimeout(() => get().saveSession(), 0)
  files,          \* file store: File[]
  loading,        \* file store: loading
  error,          \* file store: error
  lsFiles,        \* localStorage['windows-html-editor-files']
  lsTimers,       \* pending setTimeout(() => get().saveFilesToLocalStorage(), 0)
  server,         \* MemStorage.files: name -> content
  ops,            \* file-store calls awaiting the server
  htmlContent,    \* Editor page: the HTML handed to the preview
  widget,         \* MonacoEditor: the mounted editor, its refs and its closure
  changeTimer,    \* MonacoEditor: the pending call of debouncedOnChange (300 ms)
  previewTimer,   \* Editor page: the pending call of updatePreview (500 ms)
  github,         \* GitHub store: token, isAuthenticated, user, repos, gists, ...
  gitService,     \* githubService.token
  lsToken,        \* localStorage['github_token']
  gitOps,         \* requests to api.github.com awaiting their response
  debounce,       \* utils.debounce: the clock, the timers set and the closure of one wrapped function
  serverBefore,   \* history: the server's files when renameFile was last called alone
  done,           \* history: the call that completed in the last step
  outcomes        \* history: "ok" once a call has succeeded, "err" once one has failed

editorVars == <<tabs, activeTab, theme, nextId, session, sessionTimers>>
fileVars == <<files, loading, error, lsFiles, lsTimers, server, ops>>
pageVars == <<htmlContent, widget, changeTimer, previewTimer>>
gitVars == <<github, gitService, lsToken, gitOps>>
histVars == <<done, outcomes>>
vars == <<tabs, activeTab, theme, nextId, session, sessionTimers,
          files, loading, error, lsFiles, lsTimers, server, ops,
          htmlContent, widget, changeTimer, previewTimer,
          github, gitService, lsToken, gitOps, debounce, serverBefore, done, outcomes>>

\* ------------------------------------------------------------- helpers
RECURSIVE SelectSeqBy(_, _)
\* Array.prototype.filter with a predicate given as a set of kept indices
SelectSeqBy(s, keep) ==
  IF s = << >> THEN << >>
  ELSE LET rest == SelectSeqBy(Tail(s), {i - 1 : i \in keep \ {1}})
       IN IF 1 \in keep THEN <<Head(s)>> \o rest ELSE rest

\* Array.prototype.findIndex and find, given the indices that satisfy the
\* predicate: the first of them (0 when there is none, indices from 1)
FindIndex(hits) ==
  IF hits = {} THEN 0 ELSE CHOOSE i \in hits : \A j \in hits : i <= j

\* tabs.findIndex(tab => tab.id === id)
IndexOfId(ts, id) == FindIndex({i \in DOMAIN ts : ts[i].id = id})

Min(a, b) == IF a < b THEN a ELSE b

\* A call that forgets its timer
NoSchedule(n) == n

\* One more zero-delay timer of a kind
Schedule(n) == Min(n + 1, MaxTimers)

\* A stringify that leaves the theme out, so that the default is read back
StringifyTabsOnly(ts, a, th) ==
  [tabs |-> [i \in DOMAIN ts |-> <<ts[i].id, ts[i].fileName, ts[i].content,
                                   ts[i].language, ts[i].isUnsaved>>],
   activeTab |-> IF a = Null THEN <<"null">> ELSE <<"string", a>>,
   theme |-> "undefined"]

\* JSON.stringify({ tabs, activeTab, theme }): every tab with its five fields in
\* order, activeTab as a JSON string or as null
StringifySession(ts, a, th) ==
  [tabs |-> [i \in DOMAIN ts |-> <<ts[i].id, ts[i].fileName, ts[i].content,
                                   ts[i].language, ts[i].isUnsaved>>],
   activeTab |-> IF a = Null THEN <<"null">> ELSE <<"string", a>>,
   theme |-> th]

\* loadSession: JSON.parse(sessionData) and the checks of the parsed fields
ParseSession(item) ==
  [tabs |-> [i \in DOMAIN item.tabs |->
               [id |-> item.tabs[i][1], fileName |-> item.tabs[i][2],
                content |-> item.tabs[i][3], language |-> item.tabs[i][4],
                isUnsaved |-> item.tabs[i][5]]],
   activeTab |-> IF item.activeTab[1] = "string" THEN item.activeTab[2] ELSE Null,
   theme |-> IF item.theme \in {"light", "dark"} THEN item.theme ELSE "dark"]

NoSession == [present |-> FALSE, item |-> StringifySession(<< >>, Null, "dark")]

NewTab(id, fileName, content, isUnsaved) ==
  [id |-> id, fileName |-> fileName, content |-> content,
   language |-> getLanguageFromFileName(fileName), isUnsaved |-> isUnsaved]

\* An id generator that hands out the id of an open tab again
ReusedId == IF tabs = << >> THEN nextId ELSE tabs[1].id

\* uuidv4(): an id no tab has had
FreshId == nextId

\* ------------------------------------------------------------- editor store
createNewTab(fileName, content) ==
  /\ tabs' = Append(tabs, NewTab(FreshId, fileName, content, TRUE))
  /\ activeTab' = FreshId
  /\ nextId' = nextId + 1
  /\ sessionTimers' = Schedule(sessionTimers)
  /\ UNCHANGED <<session, theme>>

\* An openFile that opens a new tab even when the file has one
openFileAnew(fileName, content) ==
  /\ tabs' = Append(tabs, NewTab(FreshId, fileName, content, FALSE))
  /\ activeTab' = FreshId
  /\ nextId' = nextId + 1
  /\ sessionTimers' = Schedule(sessionTimers)
  /\ UNCHANGED <<session, theme>>

openFile(fileName, content) ==
  LET k == FindIndex({i \in DOMAIN tabs : tabs[i].fileName = fileName})
  IN IF k # 0
     THEN /\ activeTab' = tabs[k].id
          /\ sessionTimers' = Schedule(sessionTimers)
          /\ UNCHANGED <<tabs, theme, nextId, session>>
     ELSE /\ tabs' = Append(tabs, NewTab(FreshId, fileName, content, FALSE))
          /\ activeTab' = FreshId
          /\ nextId' = nextId + 1
          /\ sessionTimers' = Schedule(sessionTimers)
          /\ UNCHANGED <<session, theme>>

\* A closeTab that leaves activeTab alone
StaleActive(newTabs, tabIndex) == activeTab

\* A closeTab that prefers the tab before the closed one
PreviousActive(newTabs, tabIndex) ==
  IF Len(newTabs) > 0 THEN newTabs[IF tabIndex > 1 THEN tabIndex - 1 ELSE 1].id ELSE Null

\* A closeTab that leaves no tab active
NoActive(newTabs, tabIndex) == Null

\* The tab that becomes active when closeTab removes the active tab at tabIndex
NextActive(newTabs, tabIndex) ==
  IF Len(newTabs) > 0 THEN newTabs[Min(tabIndex, Len(newTabs))].id ELSE Null

\* A closeTab that closes the last tab, whichever id it is given
closeLastTab(tabId) ==
  IF tabs = << >>
  THEN UNCHANGED editorVars
  ELSE /\ tabs' = SubSeq(tabs, 1, Len(tabs) - 1)
       /\ activeTab' = IF activeTab = tabs[Len(tabs)].id THEN Null ELSE activeTab
       /\ sessionTimers' = Schedule(sessionTimers)
       /\ UNCHANGED <<theme, nextId, session>>

closeTab(tabId) ==
  LET tabIndex == IndexOfId(tabs, tabId)
      newTabs == SelectSeqBy(tabs, {i \in DOMAIN tabs : tabs[i].id # tabId})
  IN IF tabIndex = 0
     THEN UNCHANGED editorVars
     ELSE /\ tabs' = newTabs
          /\ activeTab' = IF tabId = activeTab THEN NextActive(newTabs, tabIndex)
                          ELSE activeTab
          /\ sessionTimers' = Schedule(sessionTimers)
          /\ UNCHANGED <<theme, nextId, session>>

setActiveTab(tabId) ==
  /\ activeTab' = tabId
  /\ sessionTimers' = Schedule(sessionTimers)
  /\ UNCHANGED <<tabs, theme, nextId, session>>

\* { ...tab, field: value, ... }
Spread(tab, fields) ==
  [k \in DOMAIN tab |-> IF k \in DOMAIN fields THEN fields[k] ELSE tab[k]]

\* tabs.map(tab => tab.id === tabId ? { ...tab, fields } : tab)
MapTab(ts, tabId, fields) ==
  [i \in DOMAIN ts |-> IF ts[i].id = tabId THEN Spread(ts[i], fields) ELSE ts[i]]

updateTabContent(tabId, content) ==
  /\ tabs' = MapTab(tabs, tabId, [content |-> content, isUnsaved |-> TRUE])
  /\ sessionTimers' = Schedule(sessionTimers)
  /\ UNCHANGED <<activeTab, theme, nextId, session>>

formatActiveTab ==
  LET k == IndexOfId(tabs, activeTab)
  IN IF activeTab # Null /\ k # 0 /\ tabs[k].language = "html"
     THEN /\ tabs' = MapTab(tabs, activeTab, [content |-> beautifyHtml(tabs[k].content),
                                                   isUnsaved |-> TRUE])
          /\ sessionTimers' = Schedule(sessionTimers)
          /\ UNCHANGED <<activeTab, theme, nextId, session>>
     ELSE UNCHANGED editorVars

toggleTheme ==
  /\ theme' = IF theme = "dark" THEN "light" ELSE "dark"
  /\ sessionTimers' = Schedule(sessionTimers)
  /\ UNCHANGED <<tabs, activeTab, nextId, session>>

saveSession ==
  /\ sessionTimers > 0
  /\ sessionTimers' = sessionTimers - 1
  /\ session' = [present |-> TRUE, item |-> StringifySession(tabs, activeTab, theme)]
  /\ UNCHANGED <<tabs, activeTab, theme, nextId>>

loadSession ==
  IF session.present
  THEN /\ tabs' = ParseSession(session.item).tabs
       /\ activeTab' = ParseSession(session.item).activeTab
       /\ theme' = ParseSession(session.item).theme
       /\ UNCHANGED <<nextId, session, sessionTimers>>
  ELSE UNCHANGED editorVars

\* ------------------------------------------------------------- server
\* MemStorage.files is a Map: here a function from the stored names to contents.
HasFile(name) == name \in DOMAIN server

\* MemStorage.createFile: this.files.set(name, {name, content})
StorageCreate(name, content) ==
  [n \in DOMAIN server \cup {name} |-> IF n = name THEN content ELSE server[n]]

\* MemStorage.updateFile, called when the file exists
StorageUpdate(name, content) == [server EXCEPT ![name] = content]

\* MemStorage.deleteFile
StorageDelete(name) == [n \in DOMAIN server \ {name} |-> server[n]]

\* POST /api/files: content || ''
PostContent(content) == IF content = "" THEN "" ELSE content

\* An upsert that updates a stored file and creates none
PutFileUpdateOnly(name, content) ==
  IF HasFile(name) THEN StorageUpdate(name, content) ELSE server

\* PUT /api/files/:name: update when the file exists, create it otherwise
PutFile(name, content) ==
  IF HasFile(name) THEN StorageUpdate(name, content) ELSE StorageCreate(name, content)

\* ------------------------------------------------------------- file store
File(name, content) == [name |-> name, content |-> content]

NoError == [msg |-> "null", name |-> << >>]
Err(msg, name) == [msg |-> msg, name |-> name]

\* typed: for an edit, the tab that was active when the user typed it;
\* tabsBefore, activeBefore: for a call of the editor store, the tabs and the
\* active tab it was called with
NoDone == [kind |-> "none", ok |-> FALSE, name |-> << >>, content |-> "",
           tab |-> Null, via |-> "direct", before |-> << >>, typed |-> Null,
           tabsBefore |-> << >>, activeBefore |-> Null]

\* A call of the file store that awaits the server.
\*   pc: "req" request under way, "ok"/"err" response under way; renameFile
\*       also "posted" (POST answered) and "req2" (DELETE under way);
\*       deleteFolder "orphan" once it has returned false with requests left.
\*   tab, via: the saveActiveTab call that waits for this saveFile.
Op(id, kind, name, content, newName, pending, tab, via) ==
  [id |-> id, kind |-> kind, name |-> name, content |-> content,
   newName |-> newName, pending |-> pending, tab |-> tab, via |-> via,
   pc |-> "req", msg |-> "null"]

FreeOpId == CHOOSE i \in 1..(Cardinality(ops) + 1) : \A o \in ops : o.id # i

Names(fs) == {fs[i].name : i \in DOMAIN fs}

\* files.find(file => file.name === name) !== undefined
Exists(name) == name \in Names(files)

\* The catch branch of every call: set({ error, loading: false })
Catch(msg, name) ==
  /\ error' = Err(msg, name)
  /\ loading' = FALSE
  /\ outcomes' = outcomes \cup {"err"}

\* set({ loading: true, error: null }) and the request leaves
Send(op) ==
  /\ loading' = TRUE
  /\ error' = NoError
  /\ ops' = ops \cup {op}
  /\ UNCHANGED <<files, lsFiles, lsTimers, server, done, outcomes>>

\* A createFile that sends its request without looking at the name
createFileUnchecked(name, content) ==
  Send(Op(FreeOpId, "create", name, content, << >>, << >>, Null, "direct"))

createFile(name, content) ==
  IF name = NameEmpty
  THEN /\ Catch("File name cannot be empty", << >>)
       /\ done' = [NoDone EXCEPT !.kind = "create", !.name = name, !.before = files]
       /\ UNCHANGED <<files, lsFiles, lsTimers, server, ops>>
  ELSE IF Exists(name)
  THEN /\ Catch("already exists", name)
       /\ done' = [NoDone EXCEPT !.kind = "create", !.name = name, !.before = files]
       /\ UNCHANGED <<files, lsFiles, lsTimers, server, ops>>
  ELSE Send(Op(FreeOpId, "create", name, content, << >>, << >>, Null, "direct"))

\* saveFile as far as its request; tab and via name the waiting saveActiveTab
saveFileStart(name, content, tab, via) ==
  IF name = NameEmpty
  THEN /\ Catch("File name cannot be empty", << >>)
       /\ done' = [NoDone EXCEPT !.kind = "save", !.name = name, !.content = content,
                                 !.tab = tab, !.via = via, !.before = files]
       /\ UNCHANGED <<files, lsFiles, lsTimers, server, ops>>
  ELSE Send(Op(FreeOpId, "save", name, content, << >>, << >>, tab, via))

saveFile(name, content) == saveFileStart(name, content, Null, "direct")

deleteFile(name) ==
  IF name = NameEmpty
  THEN /\ Catch("File name cannot be empty", << >>)
       /\ done' = [NoDone EXCEPT !.kind = "delete", !.name = name, !.before = files]
       /\ UNCHANGED <<files, lsFiles, lsTimers, server, ops>>
  ELSE Send(Op(FreeOpId, "delete", name, "", << >>, << >>, Null, "direct"))

\* files.filter(file => file.name === folderPath || file.name.startsWith(folderPath + '/'))
InFolder(name, folderPath) == name = folderPath \/ StartsWith(name, folderPath \o <<"/">>)

\* files.filter(file => file.name !== name)
WithoutName(fs, name) == SelectSeqBy(fs, {i \in DOMAIN fs : fs[i].name # name})

\* The names of the files deleteFolder asks the server to delete, one request each
FilesToDelete(folderPath) ==
  LET hit == SelectSeqBy(files, {i \in DOMAIN files : InFolder(files[i].name, folderPath)})
  IN [i \in DOMAIN hit |-> hit[i].name]

\* deleteFolder's update of the local state
WithoutFolder(fs, folderPath) == SelectSeqBy(fs, {i \in DOMAIN fs : ~InFolder(fs[i].name, folderPath)})

deleteFolder(folderPath) ==
  IF folderPath = NameEmpty
  THEN /\ Catch("Folder path cannot be empty", << >>)
       /\ done' = [NoDone EXCEPT !.kind = "deleteFolder", !.name = folderPath,
                                 !.before = files]
       /\ UNCHANGED <<files, lsFiles, lsTimers, server, ops>>
  ELSE IF FilesToDelete(folderPath) = << >>
  THEN \* Promise.all([]) is resolved: the call goes on without waiting
       /\ files' = WithoutFolder(files, folderPath)
       /\ loading' = FALSE
       /\ error' = NoError
       /\ lsTimers' = Schedule(lsTimers)
       /\ done' = [NoDone EXCEPT !.kind = "deleteFolder", !.ok = TRUE,
                                 !.name = folderPath, !.before = files]
       /\ outcomes' = outcomes \cup {"ok"}
       /\ UNCHANGED <<lsFiles, server, ops>>
  ELSE Send(Op(FreeOpId, "deleteFolder", folderPath, "", << >>,
               FilesToDelete(folderPath), Null, "direct"))

renameFile(oldName, newName) ==
  IF oldName = NameEmpty \/ newName = NameEmpty
  THEN /\ Catch("File names cannot be empty", << >>)
       /\ done' = [NoDone EXCEPT !.kind = "rename", !.name = oldName, !.before = files]
       /\ UNCHANGED <<files, lsFiles, lsTimers, server, ops>>
  ELSE IF oldName = newName
  THEN /\ done' = [NoDone EXCEPT !.kind = "rename", !.ok = TRUE, !.name = oldName,
                                 !.before = files]
       /\ outcomes' = outcomes \cup {"ok"}
       /\ UNCHANGED <<files, loading, error, lsFiles, lsTimers, server, ops>>
  ELSE IF ~Exists(oldName)
  THEN /\ Catch("not found", oldName)
       /\ done' = [NoDone EXCEPT !.kind = "rename", !.name = oldName, !.before = files]
       /\ UNCHANGED <<files, lsFiles, lsTimers, server, ops>>
  ELSE LET existingFile == files[FindIndex({i \in DOMAIN files : files[i].name = oldName})]
       IN Send(Op(FreeOpId, "rename", oldName, existingFile.content, newName,
                  << >>, Null, "direct"))

\* ------------------------------------------------------------- requests
Replace(o, p) == (ops \ {o}) \cup {p}

RemoveAt(s, i) == SubSeq(s, 1, i - 1) \o SubSeq(s, i + 1, Len(s))

\* POST /api/files, for createFile and for the first request of renameFile
ServerPost(o) ==
  /\ o.pc = "req" /\ o.kind \in {"create", "rename"}
  /\ server' = StorageCreate(IF o.kind = "rename" THEN o.newName ELSE o.name,
                             PostContent(o.content))
  /\ ops' = Replace(o, [o EXCEPT !.pc = IF o.kind = "rename" THEN "posted" ELSE "ok"])

\* PUT /api/files/:name
ServerPut(o) ==
  /\ o.pc = "req" /\ o.kind = "save"
  /\ server' = PutFile(o.name, o.content)
  /\ ops' = Replace(o, [o EXCEPT !.pc = "ok"])

\* DELETE /api/files/:name, for deleteFile and the second request of renameFile
ServerDelete(o) ==
  /\ \/ o.pc = "req" /\ o.kind = "delete"
     \/ o.pc = "req2" /\ o.kind = "rename"
  /\ IF HasFile(o.name)
     THEN /\ server' = StorageDelete(o.name)
          /\ ops' = Replace(o, [o EXCEPT !.pc = "ok"])
     ELSE /\ server' = server
          /\ ops' = Replace(o, [o EXCEPT !.pc = "err", !.msg = "404"])

\* One DELETE of a deleteFolder. The call rejects with the first failure; the
\* requests it leaves behind still reach the server ("orphan").
ServerDeleteInFolder(o, i) ==
  /\ o.kind = "deleteFolder" /\ i \in DOMAIN o.pending
  /\ LET rest == RemoveAt(o.pending, i)
         p == [o EXCEPT !.pending = rest,
                        !.msg = IF HasFile(o.pending[i]) THEN o.msg ELSE "404"]
     IN /\ server' = IF HasFile(o.pending[i]) THEN StorageDelete(o.pending[i]) ELSE server
        /\ ops' = IF o.pc = "orphan" /\ rest = << >> THEN ops \ {o} ELSE Replace(o, p)

\* fetch rejects: the request never reaches the server
NetworkFail(o) ==
  /\ o.pc \in {"req", "req2"} /\ o.kind # "deleteFolder"
  /\ ops' = Replace(o, [o EXCEPT !.pc = "err", !.msg = "network"])
  /\ server' = server

NetworkFailInFolder(o, i) ==
  /\ o.kind = "deleteFolder" /\ i \in DOMAIN o.pending
  /\ LET rest == RemoveAt(o.pending, i)
     IN ops' = IF o.pc = "orphan" /\ rest = << >> THEN ops \ {o}
               ELSE Replace(o, [o EXCEPT !.pending = rest, !.msg = "network"])
  /\ server' = server

\* ------------------------------------------------------------- responses
Completed(o, ok) ==
  [kind |-> o.kind, ok |-> ok, name |-> o.name, content |-> o.content,
   tab |-> o.tab, via |-> o.via, before |-> files, typed |-> Null,
   tabsBefore |-> << >>, activeBefore |-> Null]

\* The success branch of every call: set({ files, loading: false }) and the timer
Succeed(o, newFiles) ==
  /\ files' = newFiles
  /\ loading' = FALSE
  /\ lsTimers' = Schedule(lsTimers)
  /\ ops' = ops \ {o}
  /\ done' = Completed(o, TRUE)
  /\ outcomes' = outcomes \cup {"ok"}
  /\ UNCHANGED <<error, lsFiles, server>>

\* A catch branch that drops the file of the failed call from the list
FailDropsFile(o) ==
  /\ Catch(o.msg, << >>)
  /\ ops' = ops \ {o}
  /\ done' = Completed(o, FALSE)
  /\ files' = WithoutName(files, o.name)
  /\ UNCHANGED <<lsFiles, lsTimers, server>>

\* The catch branch of a call that was awaiting the server
Fail(o) ==
  /\ Catch(o.msg, << >>)
  /\ ops' = ops \ {o}
  /\ done' = Completed(o, FALSE)
  /\ UNCHANGED <<files, lsFiles, lsTimers, server>>

createFileDone(o) ==
  /\ o.kind = "create" /\ o.pc = "ok"
  /\ Succeed(o, Append(files, File(o.name, PostContent(o.content))))

\* saveFile's update of the local state; savedFile is the server's answer
\* A save that always adds the saved file at the end of the list
AppendedFiles(fs, name, content, savedFile) == Append(fs, savedFile)

\* saveFile: the list with the saved file in it
SavedFiles(fs, name, content, savedFile) ==
  IF name \in Names(fs)
  THEN [i \in DOMAIN fs |-> IF fs[i].name = name
                            THEN [fs[i] EXCEPT !.content = content] ELSE fs[i]]
  ELSE Append(fs, savedFile)

saveFileDone(o) ==
  /\ o.kind = "save" /\ o.pc = "ok" /\ o.tab = Null
  /\ Succeed(o, SavedFiles(files, o.name, o.content, File(o.name, o.content)))

deleteFileDone(o) ==
  /\ o.kind = "delete" /\ o.pc = "ok"
  /\ Succeed(o, WithoutName(files, o.name))

\* renameFile between its two awaits: the POST is answered, the DELETE leaves
renameFileDelete(o) ==
  /\ o.kind = "rename" /\ o.pc = "posted"
  /\ ops' = Replace(o, [o EXCEPT !.pc = "req2"])
  /\ done' = NoDone
  /\ UNCHANGED <<files, loading, error, lsFiles, lsTimers, server, outcomes>>

\* renameFile's update of the local state
Renamed(fs, oldName, newName) ==
  [i \in DOMAIN fs |-> IF fs[i].name = oldName
                       THEN [fs[i] EXCEPT !.name = newName] ELSE fs[i]]

renameFileDone(o) ==
  /\ o.kind = "rename" /\ o.pc = "ok"
  /\ Succeed(o, Renamed(files, o.name, o.newName))

deleteFolderDone(o) ==
  /\ o.kind = "deleteFolder" /\ o.pc = "req"
  /\ IF o.msg # "null"
     THEN /\ Catch(o.msg, << >>)
          /\ ops' = IF o.pending = << >> THEN ops \ {o}
                    ELSE Replace(o, [o EXCEPT !.pc = "orphan"])
          /\ done' = Completed(o, FALSE)
          /\ UNCHANGED <<files, lsFiles, lsTimers, server>>
     ELSE /\ o.pending = << >>
          /\ Succeed(o, WithoutFolder(files, o.name))

\* createFile, deleteFile, renameFile and a saveFile nobody waits for: catch
callFailed(o) ==
  /\ o.pc = "err" /\ o.tab = Null
  /\ Fail(o)

\* JSON.stringify(files): the entries in order, each with its name and content
JSONStringify(fs) == [i \in DOMAIN fs |-> <<"name", fs[i].name, "content", fs[i].content>>]

saveFilesToLocalStorage ==
  /\ lsTimers > 0
  /\ lsTimers' = lsTimers - 1
  /\ lsFiles' = [present |-> TRUE, item |-> JSONStringify(files)]
  /\ done' = NoDone
  /\ UNCHANGED <<files, loading, error, server, ops, outcomes>>

\* ------------------------------------------------------------- loadFilesFromLocalStorage
\* JSON.parse of the stored item: the entries in order
JSONParse(item) == [i \in DOMAIN item |-> File(item[i][2], item[i][4])]

\* The Editor page is loaded anew: the file store starts empty, no timer of the
\* page before is left, and the mount effect calls loadFilesFromLocalStorage.
\* With an array stored, set({ files: parsedFiles }) and the loop over
\* parsedFiles begins: the files with file.name && file.content are to be PUT,
\* one after the other. The call is in ops with pc "sync" and the files still
\* to be PUT in pending.
loadFilesFromLocalStorage ==
  /\ ops = {}
  /\ LET parsedFiles == IF lsFiles.present THEN JSONParse(lsFiles.item) ELSE << >>
         toSync == SelectSeqBy(parsedFiles,
                     {i \in DOMAIN parsedFiles :
                        parsedFiles[i].name # NameEmpty /\ parsedFiles[i].content # ""})
     IN /\ files' = parsedFiles
        /\ ops' = IF lsFiles.present
                  THEN {[Op(1, "load", NameEmpty, "", << >>, toSync, Null, "direct")
                           EXCEPT !.pc = "sync"]}
                  ELSE {}
  /\ loading' = FALSE
  /\ error' = NoError
  /\ lsTimers' = 0
  /\ done' = NoDone
  /\ UNCHANGED <<lsFiles, server, outcomes>>
  /\ UNCHANGED <<editorVars, pageVars, gitVars, serverBefore, debounce>>

\* One turn of the loop: the PUT of the next file is answered by the server, or
\* it fails and the inner catch logs it (msg keeps the failure); the loop goes on
loadFilesSync(o) ==
  /\ o.kind = "load" /\ o.pending # << >>
  /\ \/ /\ server' = PutFile(Head(o.pending).name, Head(o.pending).content)
        /\ ops' = Replace(o, [o EXCEPT !.pending = Tail(o.pending)])
     \/ /\ server' = server
        /\ ops' = Replace(o, [o EXCEPT !.pending = Tail(o.pending), !.msg = "network"])
  /\ done' = NoDone
  /\ UNCHANGED <<files, loading, error, lsFiles, lsTimers, outcomes>>
  /\ UNCHANGED <<editorVars, pageVars, gitVars, serverBefore, debounce>>

\* The loop is over: return true. In done, ok tells that no PUT has failed.
loadFilesFromLocalStorageDone(o) ==
  /\ o.kind = "load" /\ o.pending = << >>
  /\ ops' = ops \ {o}
  /\ done' = [NoDone EXCEPT !.kind = "load", !.ok = (o.msg = "null"), !.before = files]
  /\ UNCHANGED <<files, loading, error, lsFiles, lsTimers, server, outcomes>>
  /\ UNCHANGED <<editorVars, pageVars, gitVars, serverBefore, debounce>>

\* The server process starts anew: new MemStorage() holds none of the user's files
ServerRestart ==
  /\ ops = {}
  /\ server' = << >>
  /\ done' = NoDone
  /\ UNCHANGED <<files, loading, error, lsFiles, lsTimers, ops, outcomes>>
  /\ UNCHANGED <<editorVars, pageVars, gitVars, serverBefore, debounce>>

\* ------------------------------------------------------------- saveActiveTab
\* saveActiveTab as far as its first await. promptName is the answer to
\* prompt('Please enter a filename to save:'), NameEmpty when it is cancelled.
saveActiveTab(promptName) ==
  LET k == IndexOfId(tabs, activeTab)
  IN IF activeTab = Null \/ k = 0
     THEN UNCHANGED vars
     ELSE IF tabs[k].fileName = NameEmpty
     THEN IF promptName = NameEmpty
          THEN UNCHANGED vars
          ELSE /\ tabs' = MapTab(tabs, activeTab, [fileName |-> promptName])
               /\ saveFileStart(promptName, tabs[k].content, activeTab, "prompt")
               /\ UNCHANGED <<activeTab, theme, nextId, session, sessionTimers>>
     ELSE /\ saveFileStart(tabs[k].fileName, tabs[k].content, activeTab, "normal")
          /\ UNCHANGED editorVars

\* The tab update that ends a successful saveActiveTab
MarkSaved(ts, o) ==
  MapTab(ts, o.tab, IF o.via = "saveAs"
                    THEN [fileName |-> o.name, isUnsaved |-> FALSE]
                    ELSE [isUnsaved |-> FALSE])

\* saveFile resolves and the saveActiveTab that awaited it goes on
saveActiveTabDone(o) ==
  /\ o.kind = "save" /\ o.pc = "ok" /\ o.tab # Null
  /\ Succeed(o, SavedFiles(files, o.name, o.content, File(o.name, o.content)))
  /\ tabs' = MarkSaved(tabs, o)
  /\ sessionTimers' = Schedule(sessionTimers)
  /\ UNCHANGED <<activeTab, theme, nextId, session>>

\* saveFile rejects. The first attempt of a named tab asks
\* prompt('Error saving file. Save as a different name?'): saveAsName is the
\* answer, NameEmpty when it is cancelled. Every other attempt ends in an alert.
saveActiveTabFailed(o, saveAsName) ==
  /\ o.kind = "save" /\ o.pc = "err" /\ o.tab # Null
  /\ IF o.via = "normal" /\ saveAsName # NameEmpty
     THEN /\ loading' = TRUE
          /\ error' = NoError
          /\ outcomes' = outcomes \cup {"err"}
          /\ ops' = Replace(o, Op(o.id, "save", saveAsName, o.content, << >>, << >>,
                                  o.tab, "saveAs"))
          /\ done' = NoDone
          /\ UNCHANGED <<files, lsFiles, lsTimers, server>>
     ELSE Fail(o)
  /\ UNCHANGED editorVars

\* ------------------------------------------------------------- GitHub store
\* A token, and what was fetched with a token, is a string; "null" is null and
\* "[]" is the empty list. The fields userLoading, reposLoading, gistsLoading
\* are loading.user, loading.repos, loading.gists, and so for the errors.

\* The store as create() builds it: token is githubService.loadToken() and
\* isAuthenticated is githubService.isAuthenticated() after it
GitHubStore(token) ==
  [token |-> token, isAuthenticated |-> token # "null",
   authLoading |-> FALSE, authError |-> "null",
   user |-> "null", repos |-> "[]", gists |-> "[]",
   loading |-> [user |-> FALSE, repos |-> FALSE, gists |-> FALSE],
   error |-> [user |-> "null", repos |-> "null", gists |-> "null"]]

\* fetchUserProfile, fetchUserRepos and fetchUserGists as far as their await,
\* called with the store st and the requests rs: the store and the requests
\* they leave. Without a token the service answers without a request ("none").
FetchStarted(what, st, rs) ==
  IF ~st.isAuthenticated
  THEN [store |-> st, ops |-> rs]
  ELSE [store |-> [st EXCEPT !.loading[what] = TRUE, !.error[what] = "null"],
        ops |-> rs \cup
          {[id |-> CHOOSE i \in 1..(Cardinality(rs) + 1) : \A o \in rs : o.id # i,
            kind |-> what, token |-> gitService,
            pc |-> IF gitService = "null" THEN "none" ELSE "req"]}]

\* setToken as far as its await. throws: localStorage.setItem throws, which
\* githubService.setToken lets through to the catch branch.
setToken(token, throws) ==
  /\ gitService' = token
  /\ IF throws
     THEN /\ github' = [github EXCEPT !.token = "null", !.isAuthenticated = FALSE,
                                      !.authLoading = FALSE,
                                      !.authError = "Error authenticating with GitHub"]
          /\ UNCHANGED <<lsToken, gitOps>>
     ELSE /\ lsToken' = token
          /\ github' = [github EXCEPT !.authLoading = TRUE, !.authError = "null"]
          /\ gitOps' = gitOps \cup
               {[id |-> CHOOSE i \in 1..(Cardinality(gitOps) + 1) :
                          \A o \in gitOps : o.id # i,
                 kind |-> "validate", token |-> token, pc |-> "req"]}
  /\ UNCHANGED <<editorVars, fileVars, pageVars, histVars, serverBefore, debounce>>

\* api.github.com answers a request, or fetch rejects
gitHubResponds(o, answer) ==
  /\ o.pc = "req"
  /\ gitOps' = (gitOps \ {o}) \cup {[o EXCEPT !.pc = answer]}
  /\ UNCHANGED <<github, gitService, lsToken>>
  /\ UNCHANGED <<editorVars, fileVars, pageVars, histVars, serverBefore, debounce>>

\* validateToken resolves (false unless the status is 200) and setToken goes on
setTokenDone(o) ==
  /\ o.kind = "validate" /\ o.pc # "req"
  /\ IF o.pc = "200"
     THEN LET st == [github EXCEPT !.token = o.token, !.isAuthenticated = TRUE,
                                   !.authLoading = FALSE, !.authError = "null",
                                   !.error = [user |-> "null", repos |-> "null",
                                              gists |-> "null"]]
          IN /\ github' = FetchStarted("user", st, gitOps \ {o}).store
             /\ gitOps' = FetchStarted("user", st, gitOps \ {o}).ops
     ELSE /\ github' = [github EXCEPT !.token = "null", !.isAuthenticated = FALSE,
                                      !.authLoading = FALSE,
                                      !.authError = "Invalid GitHub token"]
          /\ gitOps' = gitOps \ {o}
  /\ UNCHANGED <<gitService, lsToken>>
  /\ UNCHANGED <<editorVars, fileVars, pageVars, histVars, serverBefore, debounce>>

\* fetchUserProfile, fetchUserRepos or fetchUserGists is called
fetchUserData(what) ==
  /\ github' = FetchStarted(what, github, gitOps).store
  /\ gitOps' = FetchStarted(what, github, gitOps).ops
  /\ UNCHANGED <<gitService, lsToken>>
  /\ UNCHANGED <<editorVars, fileVars, pageVars, histVars, serverBefore, debounce>>

\* The service resolves (with what a 200 carries, with null or [] otherwise)
\* and the fetch sets what it got
fetchUserDataDone(o) ==
  /\ o.kind # "validate" /\ o.pc # "req"
  /\ github' = [github EXCEPT ![o.kind] = IF o.pc = "200" THEN o.token
                                           ELSE IF o.kind = "user" THEN "null" ELSE "[]",
                               !.loading[o.kind] = FALSE]
  /\ gitOps' = gitOps \ {o}
  /\ UNCHANGED <<gitService, lsToken>>
  /\ UNCHANGED <<editorVars, fileVars, pageVars, histVars, serverBefore, debounce>>

\* A clearToken that forgets the token and stays authenticated
clearTokenOnly ==
  /\ gitService' = "null"
  /\ lsToken' = "null"
  /\ github' = [github EXCEPT !.token = "null"]
  /\ UNCHANGED gitOps
  /\ UNCHANGED <<editorVars, fileVars, pageVars, histVars, serverBefore, debounce>>

clearToken ==
  /\ gitService' = "null"
  /\ lsToken' = "null"
  /\ github' = [github EXCEPT !.token = "null", !.isAuthenticated = FALSE,
                               !.user = "null", !.repos = "[]", !.gists = "[]"]
  /\ UNCHANGED gitOps
  /\ UNCHANGED <<editorVars, fileVars, pageVars, histVars, serverBefore, debounce>>

\* The page is loaded again: the service and the store are built anew from
\* local storage, and the requests of the old page are gone
reloadPage ==
  /\ gitService' = lsToken
  /\ github' = GitHubStore(lsToken)
  /\ gitOps' = {}
  /\ UNCHANGED lsToken
  /\ UNCHANGED <<editorVars, fileVars, pageVars, histVars, serverBefore, debounce>>

\* ------------------------------------------------------------- Sidebar
RECURSIVE FolderPath(_, _)
\* buildFileTree's first pass: currentPath after the first k parts of a name,
\* currentPath = currentPath ? `${currentPath}/${part}` : part
FolderPath(parts, k) ==
  IF k = 0 THEN << >>
  ELSE IF FolderPath(parts, k - 1) # << >>
  THEN FolderPath(parts, k - 1) \o <<"/">> \o parts[k]
  ELSE parts[k]

RECURSIVE JoinPath(_, _)
\* parts.slice(0, k).join('/')
JoinPath(parts, k) ==
  IF k = 0 THEN << >>
  ELSE IF k = 1 THEN parts[1]
  ELSE JoinPath(parts, k - 1) \o <<"/">> \o parts[k]

\* buildFileTree: the nodes below the root, each with the path of the node whose
\* children it was pushed to (<< >> is the root, folderMap['']). A folder is
\* created once, when folderMap has no entry of its path; a file is pushed to
\* folderMap[parentPath], or to the root when there is no such entry. The order
\* of the children, which the sort decides, is not kept.
buildFileTree(fs) ==
  LET parts(i) == Split(fs[i].name, "/")
      folders ==
        UNION {{[path |-> FolderPath(parts(i), k), isFolder |-> TRUE,
                 parent |-> FolderPath(parts(i), k - 1)] :
                  k \in {j \in 1..(Len(parts(i)) - 1) : FolderPath(parts(i), j) # << >>}} :
               i \in DOMAIN fs}
      folderMap == {<< >>} \cup {f.path : f \in folders}
      parentPath(name) == JoinPath(Split(name, "/"), Len(Split(name, "/")) - 1)
  IN folders \cup
     {[path |-> fs[i].name, isFolder |-> FALSE,
       parent |-> IF parentPath(fs[i].name) \in folderMap
                  THEN parentPath(fs[i].name) ELSE << >>] : i \in DOMAIN fs}

\* ------------------------------------------------------------- Editor page
\* The Editor page renders after every change of the editor store and runs its
\* effects before a timer or a user event is served: a change of the store, the
\* render and the effects are one step.

NoTimer == [set |-> FALSE, val |-> "", tab |-> Null]

\* debounce: a call drops the pending call and arms the timer with its arguments
Debounced(val, tab) == [set |-> TRUE, val |-> val, tab |-> tab]

NoWidget == [mounted |-> FALSE, bound |-> Null, language |-> "plaintext",
             value |-> "", prev |-> "", shown |-> ""]

\* const currentTab = tabs.find(tab => tab.id === activeTab), as an index
CurrentTab(ts, a) == IndexOfId(ts, a)

\* const editorContent = currentTab?.content || ''
EditorContent(ts, a) == IF CurrentTab(ts, a) = 0 THEN "" ELSE ts[CurrentTab(ts, a)].content

\* const language = currentTab ? getLanguageFromFileName(currentTab.fileName) : 'plaintext'
Language(ts, a) ==
  IF CurrentTab(ts, a) = 0 THEN "plaintext"
  ELSE getLanguageFromFileName(ts[CurrentTab(ts, a)].fileName)

\* MonacoEditor's effect on [value] calls editor.setValue(value)
SetsValue(w, ts, a) ==
  /\ a # Null /\ w.mounted
  /\ EditorContent(ts, a) # w.shown
  /\ EditorContent(ts, a) # w.prev
  /\ EditorContent(ts, a) # w.value

\* {activeTab ? <MonacoEditor value={editorContent} onChange={handleEditorChange}/> : ...}
\* w: the editor before the render; ts, a: the tabs and the active tab rendered.
\*   bound, language: activeTab and language of the render that mounted the
\*       editor, which the onChange of its mount effect keeps calling;
\*   value: editor.getValue(); prev: prevValueRef.current; shown: the value prop.
RenderedWidget(w, ts, a) ==
  IF a = Null THEN [w EXCEPT !.mounted = FALSE]
  ELSE IF ~w.mounted
  THEN [mounted |-> TRUE, bound |-> a, language |-> Language(ts, a),
        value |-> EditorContent(ts, a), prev |-> EditorContent(ts, a),
        shown |-> EditorContent(ts, a)]
  ELSE IF SetsValue(w, ts, a)
  THEN [w EXCEPT !.value = EditorContent(ts, a), !.prev = EditorContent(ts, a),
                 !.shown = EditorContent(ts, a)]
  ELSE [w EXCEPT !.shown = EditorContent(ts, a)]

\* useEffect(() => { if (currentTab && currentTab.language === 'html')
\*   setHtmlContent(currentTab.content) }, [currentTab]); fresh: currentTab is
\* another object than at the last render.
PreviewEffect(ts, a, fresh) ==
  IF fresh /\ CurrentTab(ts, a) # 0 /\ ts[CurrentTab(ts, a)].language = "html"
  THEN ts[CurrentTab(ts, a)].content
  ELSE htmlContent

\* The render that follows a change of the editor store made outside the editor
Render(fresh) ==
  /\ htmlContent' = PreviewEffect(tabs', activeTab', fresh)
  /\ widget' = RenderedWidget(widget, tabs', activeTab')
  /\ changeTimer' = IF SetsValue(widget, tabs', activeTab')
                    THEN Debounced(EditorContent(tabs', activeTab'), Null)
                    ELSE changeTimer
  /\ UNCHANGED previewTimer

\* The user types in the editor: editor.onDidChangeModelContent
typeInEditor(text) ==
  /\ widget.mounted /\ text # widget.value
  /\ widget' = [widget EXCEPT !.value = text]
  /\ changeTimer' = Debounced(text, activeTab)
  /\ UNCHANGED <<htmlContent, previewTimer>>

\* handleEditorChange of the render that mounted the editor
handleEditorChange(value) ==
  /\ updateTabContent(widget.bound, value)
  /\ previewTimer' = Debounced(value, Null)
  /\ htmlContent' = PreviewEffect(tabs', activeTab', widget.bound = activeTab)
  /\ widget' = RenderedWidget([widget EXCEPT !.prev = value], tabs', activeTab')
  /\ changeTimer' = IF SetsValue([widget EXCEPT !.prev = value], tabs', activeTab')
                    THEN Debounced(EditorContent(tabs', activeTab'), Null)
                    ELSE NoTimer

\* The timer of debouncedOnChange fires
debouncedOnChange ==
  /\ changeTimer.set
  /\ IF changeTimer.val # widget.prev
     THEN /\ handleEditorChange(changeTimer.val)
          /\ done' = [NoDone EXCEPT !.kind = "edit", !.tab = widget.bound,
                                    !.content = changeTimer.val,
                                    !.typed = changeTimer.tab]
     ELSE /\ changeTimer' = NoTimer
          /\ done' = NoDone
          /\ UNCHANGED <<editorVars, htmlContent, widget, previewTimer>>

\* The timer of updatePreview fires: if (language === 'html') setHtmlContent(content)
updatePreview ==
  /\ previewTimer.set
  /\ htmlContent' = IF widget.language = "html" THEN previewTimer.val ELSE htmlContent
  /\ previewTimer' = NoTimer
  /\ UNCHANGED <<widget, changeTimer>>

refreshPreview ==
  /\ htmlContent' = PreviewEffect(tabs, activeTab, TRUE)
  /\ UNCHANGED <<widget, changeTimer, previewTimer>>

\* ------------------------------------------------------------- routes
\* The routes as any client may call them. A handler awaits MemStorage only,
\* whose promises are resolved: it runs to its response in one step. done keeps
\* the request and whether the response was a success.
\* PUT /api/files/:name with the body { content }; "undefined": a body without content
putFileRoute(name, content) ==
  /\ server' = IF content = "undefined" THEN server ELSE PutFile(name, content)
  /\ done' = [NoDone EXCEPT !.kind = "PUT", !.ok = (content # "undefined"),
                            !.name = name, !.content = content]
  /\ UNCHANGED <<files, loading, error, lsFiles, lsTimers, ops, outcomes>>
  /\ UNCHANGED <<editorVars, pageVars, gitVars, serverBefore, debounce>>

\* DELETE /api/files/:name: 404 when storage.deleteFile returns false
deleteFileRoute(name) ==
  /\ server' = IF HasFile(name) THEN StorageDelete(name) ELSE server
  /\ done' = [NoDone EXCEPT !.kind = "DELETE", !.ok = HasFile(name), !.name = name]
  /\ UNCHANGED <<files, loading, error, lsFiles, lsTimers, ops, outcomes>>
  /\ UNCHANGED <<editorVars, pageVars, gitVars, serverBefore, debounce>>

\* GET /api/files/:name: the response, res.json(file) or 404
getFileRoute(name) ==
  IF HasFile(name)
  THEN [status |-> 200, name |-> name, content |-> server[name]]
  ELSE [status |-> 404, name |-> name, content |-> "undefined"]

\* ------------------------------------------------------------- debounce
\* debounce(func, wait) for one func. timers: the timers setTimeout has set and
\* that have neither fired nor been cleared, each with the tick it is due at
\* and the args its closure holds; timeout: the closure's variable, {} for null.
\* History: lastCall and lastArgs of the most recent call, burst the calls
\* (counted up to 2) and runs the runs of func since the last run before it,
\* ran the args of the last run.
NoDebounce == [now |-> 0, timers |-> {}, timeout |-> {}, called |-> FALSE,
               lastCall |-> 0, lastArgs |-> "", burst |-> 0, runs |-> 0, ran |-> ""]

\* A wrapper that sets its timer without clearing the one it has set before
executedFunctionNoClear(args) ==
  LET t == [at |-> debounce.now + WaitTicks, args |-> args]
  IN debounce' = [debounce EXCEPT
       !.timers = @ \cup {t},
       !.timeout = {t},
       !.called = TRUE, !.lastCall = debounce.now, !.lastArgs = args,
       !.burst = IF debounce.runs > 0 THEN 1 ELSE Min(@ + 1, 2),
       !.runs = 0]

\* executedFunction(...args): if (timeout) clearTimeout(timeout);
\* timeout = setTimeout(later, wait)
executedFunction(args) ==
  LET t == [at |-> debounce.now + WaitTicks, args |-> args]
  IN debounce' = [debounce EXCEPT
       !.timers = (@ \ debounce.timeout) \cup {t},
       !.timeout = {t},
       !.called = TRUE, !.lastCall = debounce.now, !.lastArgs = args,
       !.burst = IF debounce.runs > 0 THEN 1 ELSE Min(@ + 1, 2),
       !.runs = 0]

\* later, the callback of a timer that is due: timeout = null; func(...args)
later(t) ==
  /\ t \in debounce.timers /\ debounce.now >= t.at
  /\ debounce' = [debounce EXCEPT !.timers = @ \ {t}, !.timeout = {},
                                  !.runs = @ + 1, !.ran = t.args]

\* A tick of the clock; a timer that is due may fire late
PassTime ==
  /\ debounce.now < MaxTime
  /\ debounce' = [debounce EXCEPT !.now = @ + 1]

\* ------------------------------------------------------------- steps
\* The files the server holds when the program starts, none or one of
\* MemStorage's default files; fetchFiles has copied them into the file store.
InitFiles == {<< >>, <<File(NameA, "<a><b>")>>}

ServerOf(fs) == [n \in Names(fs) |-> fs[CHOOSE i \in DOMAIN fs : fs[i].name = n].content]

Init ==
  /\ tabs = << >>
  /\ activeTab = Null
  /\ theme = "dark"
  /\ nextId = 1
  /\ session = NoSession
  /\ sessionTimers = 0
  /\ files \in InitFiles
  /\ server = ServerOf(files)
  /\ loading = FALSE
  /\ error = NoError
  /\ lsFiles = [present |-> FALSE, item |-> << >>]
  /\ lsTimers = 0
  /\ ops = {}
  /\ htmlContent = ""
  /\ widget = NoWidget
  /\ changeTimer = NoTimer
  /\ previewTimer = NoTimer
  /\ github = GitHubStore("null")
  /\ gitService = "null"
  /\ lsToken = "null"
  /\ gitOps = {}
  /\ debounce = NoDebounce
  /\ serverBefore = << >>
  /\ done = NoDone
  /\ outcomes = {}

\* A call that may add an entry starts only while the list has room for it,
\* whatever the calls in flight do
Room(max) == Cardinality(ops) < max /\ Len(files) + Cardinality(ops) < MaxFiles

\* The handlers of the editor store that the history variable tells apart
Recorded == {"loadSession", "closeTab", "openFile"}

\* A handler of the editor store leaves the file store alone
StoreOnly(kind) ==
  /\ UNCHANGED fileVars
  /\ done' = [NoDone EXCEPT !.kind = IF kind \in Recorded THEN kind ELSE "none"]
  /\ UNCHANGED outcomes

\* A handler of the editor store called while the Editor page is not shown
EditorOnly(kind) == StoreOnly(kind) /\ UNCHANGED <<pageVars, gitVars, serverBefore, debounce>>

\* The contents typed into an editor or read from an opened file
EditContents == Contents

\* The ids handed out so far: a handler knows a tab by an id it has seen
IssuedIds == 1..(nextId - 1)

TabIds == {tabs[i].id : i \in DOMAIN tabs}

TabOf(id) == tabs[IndexOfId(tabs, id)]

CreateNewTab ==
  \E n \in TabNames, c \in EditContents :
    nextId <= MaxIds /\ createNewTab(n, c) /\ EditorOnly("createNewTab")

\* Sidebar.handleFileClick: openFile(file.name, file.content) of a listed file
OpenFile ==
  \E i \in DOMAIN files :
    /\ nextId <= MaxIds \/ \E k \in DOMAIN tabs : tabs[k].fileName = files[i].name
    /\ openFile(files[i].name, files[i].content)
    /\ EditorOnly("openFile")

\* Tabs.handleCloseTab, AppHeader: closeTab of a tab that has been shown
CloseTab == \E id \in IssuedIds : closeTab(id) /\ EditorOnly("closeTab")

\* Tabs: onClick={() => setActiveTab(tab.id)} of a tab in the tab bar
SetActiveTab == \E id \in TabIds : setActiveTab(id) /\ EditorOnly("setActiveTab")

UpdateTabContent ==
  \E id \in IssuedIds, c \in EditContents :
    updateTabContent(id, c) /\ EditorOnly("updateTabContent")

FormatActiveTab == formatActiveTab /\ EditorOnly("formatActiveTab")

SaveSession == saveSession /\ EditorOnly("saveSession")

LoadSession == loadSession /\ EditorOnly("loadSession")

\* CommandPalette: toggleTheme()
ToggleTheme == toggleTheme /\ EditorOnly("toggleTheme")

\* max: how many calls may await the server at once
SaveActiveTab(max) ==
  \E n \in TabNames : Room(max) /\ saveActiveTab(n) /\ UNCHANGED <<pageVars, gitVars, serverBefore, debounce>>

SaveActiveTabDone == \E o \in ops : saveActiveTabDone(o) /\ UNCHANGED <<pageVars, gitVars, serverBefore, debounce>>

SaveActiveTabFailed ==
  \E o \in ops, n \in TabNames : saveActiveTabFailed(o, n) /\ UNCHANGED <<pageVars, gitVars, serverBefore, debounce>>

CreateFile(max) ==
  \E n \in FileNames, c \in Contents :
    Room(max) /\ createFile(n, c) /\ UNCHANGED <<editorVars, pageVars, gitVars, serverBefore, debounce>>

SaveFile(max) ==
  \E n \in FileNames, c \in Contents :
    Room(max) /\ saveFile(n, c) /\ UNCHANGED <<editorVars, pageVars, gitVars, serverBefore, debounce>>

\* createFile called without a name
CreateFileUnnamed ==
  \E c \in Contents :
    ops = {} /\ createFile(NameEmpty, c) /\ UNCHANGED <<editorVars, pageVars, gitVars, serverBefore, debounce>>

DeleteFile(max) ==
  \E n \in FileNames :
    Cardinality(ops) < max /\ deleteFile(n) /\ UNCHANGED <<editorVars, pageVars, gitVars, serverBefore, debounce>>

DeleteFolder(max) ==
  \E p \in FolderPaths :
    Cardinality(ops) < max /\ deleteFolder(p) /\ UNCHANGED <<editorVars, pageVars, gitVars, serverBefore, debounce>>

\* Sidebar.handleRenameFile: newFileName && newFileName !== oldFileName
RenameFile(max) ==
  \E old \in FileNames : \E new \in FileNames \ {old} :
    Cardinality(ops) < max /\ renameFile(old, new) /\ UNCHANGED <<editorVars, pageVars, gitVars, serverBefore, debounce>>

\* renameFile called with no other call under way
RenameFileAlone ==
  \E old \in FileNames : \E new \in FileNames \ {old} :
    /\ ops = {} /\ renameFile(old, new)
    /\ serverBefore' = server
    /\ UNCHANGED <<editorVars, pageVars, gitVars, debounce>>

\* A step of the server or of the network changes no client state
ServerOnly ==
  /\ done' = NoDone
  /\ UNCHANGED <<files, loading, error, lsFiles, lsTimers, outcomes>>
  /\ UNCHANGED <<editorVars, pageVars, gitVars, serverBefore, debounce>>

Server ==
  \E o \in ops :
    /\ \/ ServerPost(o)
       \/ ServerPut(o)
       \/ ServerDelete(o)
       \/ \E i \in DOMAIN o.pending : ServerDeleteInFolder(o, i)
    /\ ServerOnly

Network ==
  \E o \in ops :
    /\ \/ NetworkFail(o)
       \/ \E i \in DOMAIN o.pending : NetworkFailInFolder(o, i)
    /\ ServerOnly

CallDone ==
  \E o \in ops :
    /\ \/ createFileDone(o)
       \/ saveFileDone(o)
       \/ deleteFileDone(o)
       \/ renameFileDelete(o)
       \/ renameFileDone(o)
       \/ deleteFolderDone(o)
    /\ UNCHANGED <<editorVars, pageVars, gitVars, serverBefore, debounce>>

CallFailed == \E o \in ops : callFailed(o) /\ UNCHANGED <<editorVars, pageVars, gitVars, serverBefore, debounce>>

SaveFilesToLocalStorage == saveFilesToLocalStorage /\ UNCHANGED <<editorVars, pageVars, gitVars, serverBefore, debounce>>

\* A handler of the editor store, recorded with its arguments and with the
\* tabs and the active tab it was called with
Called(kind, tab, name, content) ==
  /\ done' = [NoDone EXCEPT !.kind = kind, !.tab = tab, !.name = name,
                            !.content = content, !.tabsBefore = tabs,
                            !.activeBefore = activeTab]
  /\ UNCHANGED <<fileVars, pageVars, gitVars, serverBefore, debounce, outcomes>>

CallCreateNewTab ==
  \E n \in TabNames, c \in EditContents :
    nextId <= MaxTabs /\ createNewTab(n, c) /\ Called("createNewTab", Null, n, c)

\* Sidebar.handleFileClick: openFile(file.name, file.content) of a listed file
CallOpenFile ==
  \E i \in DOMAIN files :
    /\ nextId <= MaxTabs \/ \E k \in DOMAIN tabs : tabs[k].fileName = files[i].name
    /\ openFile(files[i].name, files[i].content)
    /\ Called("openFile", Null, files[i].name, files[i].content)

\* Tabs.handleCloseTab, AppHeader: closeTab of a tab that has been shown
CallCloseTab == \E id \in IssuedIds : closeTab(id) /\ Called("closeTab", id, << >>, "")

\* Tabs: onClick={() => setActiveTab(tab.id)} of a tab in the tab bar
CallSetActiveTab ==
  \E id \in TabIds : setActiveTab(id) /\ Called("setActiveTab", id, << >>, "")

\* Sidebar.handleCreateFile: createFile(fileName, '') of a name typed at the prompt
CreateTreeFile ==
  \E n \in TreeNames :
    /\ ops = {} /\ Len(files) < MaxTreeFiles
    /\ createFile(n, "")
    /\ UNCHANGED <<editorVars, pageVars, gitVars, serverBefore, debounce>>

\* The handlers of the editor store and of the editor with the Editor page shown
PageOnly == UNCHANGED <<fileVars, gitVars, serverBefore, debounce, outcomes>>

ShowNewTab ==
  \E n \in TabNames, c \in EditContents :
    /\ nextId <= MaxIds /\ createNewTab(n, c)
    /\ Render(TRUE) /\ done' = NoDone /\ PageOnly

ShowFile ==
  \E i \in DOMAIN files :
    /\ nextId <= MaxIds \/ \E k \in DOMAIN tabs : tabs[k].fileName = files[i].name
    /\ openFile(files[i].name, files[i].content)
    /\ Render(activeTab' # activeTab) /\ done' = NoDone /\ PageOnly

ShowTab ==
  \E id \in TabIds :
    /\ setActiveTab(id)
    /\ Render(activeTab' # activeTab) /\ done' = NoDone /\ PageOnly

TypeInEditor ==
  \E c \in EditContents :
    typeInEditor(c) /\ done' = NoDone /\ PageOnly /\ UNCHANGED editorVars

DebouncedOnChange == debouncedOnChange /\ PageOnly

UpdatePreview == updatePreview /\ done' = NoDone /\ PageOnly /\ UNCHANGED editorVars

RefreshPreview == refreshPreview /\ done' = NoDone /\ PageOnly /\ UNCHANGED editorVars

\* ------------------------------------------------------------- specifications
\* The editor store on its own, with its session in local storage
NextTabs ==
  \/ CreateNewTab
  \/ OpenFile
  \/ CloseTab
  \/ SetActiveTab
  \/ UpdateTabContent
  \/ FormatActiveTab
  \/ SaveSession
  \/ LoadSession
  \/ ToggleTheme

SpecTabs == Init /\ [][NextTabs]_vars

\* The tab bar: tabs created, opened, chosen and closed, each call recorded
NextCalls ==
  \/ CallCreateNewTab
  \/ CallOpenFile
  \/ CallCloseTab
  \/ CallSetActiveTab

SpecCalls == Init /\ [][NextCalls]_vars

\* The explorer: files created one after the other and shown as a tree
NextSidebar ==
  \/ CreateTreeFile
  \/ Server
  \/ Network
  \/ CallDone
  \/ CallFailed

SpecSidebar == Init /\ [][NextSidebar]_vars

\* The GitHub store, its service and api.github.com
NextGitHub ==
  \/ \E t \in {"tokenA", "tokenB"}, throws \in BOOLEAN :
       Cardinality(gitOps) < MaxOps /\ setToken(t, throws)
  \/ \E o \in gitOps, answer \in {"200", "401", "failed"} : gitHubResponds(o, answer)
  \/ \E o \in gitOps : setTokenDone(o)
  \/ \E what \in {"user", "repos", "gists"} :
       Cardinality(gitOps) < MaxOps /\ fetchUserData(what)
  \/ \E o \in gitOps : fetchUserDataDone(o)
  \/ clearToken
  \/ reloadPage

SpecGitHub == Init /\ [][NextGitHub]_vars

\* The editor store saving its tabs through the file store, one save at a time
NextSave ==
  \/ CreateNewTab
  \/ OpenFile
  \/ CloseTab
  \/ SetActiveTab
  \/ UpdateTabContent
  \/ FormatActiveTab
  \/ SaveActiveTab(MaxCalls)
  \/ SaveActiveTabDone
  \/ SaveActiveTabFailed
  \/ Server
  \/ Network

SpecSave == Init /\ [][NextSave]_vars

\* Tabs edited and saved again while earlier saves still await the server
NextSaveRace ==
  \/ CreateNewTab
  \/ UpdateTabContent
  \/ SaveActiveTab(MaxOps)
  \/ SaveActiveTabDone
  \/ SaveActiveTabFailed
  \/ Server
  \/ Network

SpecSaveRace == Init /\ [][NextSaveRace]_vars

\* The file store and its server, with calls that overlap
NextFiles ==
  \/ CreateFile(MaxOps)
  \/ SaveFile(MaxOps)
  \/ DeleteFile(MaxOps)
  \/ DeleteFolder(MaxOps)
  \/ RenameFile(MaxOps)
  \/ Server
  \/ Network
  \/ CallDone
  \/ CallFailed

SpecFiles == Init /\ [][NextFiles]_vars

\* Files are created and saved, mirrored to localStorage and loaded from it by
\* a new page, with a server that may start anew in between
NextLoad ==
  \/ CreateTreeFile
  \/ SaveFile(MaxCalls)
  \/ Server
  \/ Network
  \/ CallDone
  \/ CallFailed
  \/ SaveFilesToLocalStorage
  \/ ServerRestart
  \/ loadFilesFromLocalStorage
  \/ \E o \in ops : loadFilesSync(o)
  \/ \E o \in ops : loadFilesFromLocalStorageDone(o)

SpecLoad == Init /\ [][NextLoad]_vars

\* The server on its own, its routes called with any name and any body
NextRoutes ==
  \/ \E n \in TreeNames, c \in Contents \cup {"", "undefined"} : putFileRoute(n, c)
  \/ \E n \in TreeNames : deleteFileRoute(n)

SpecRoutes == Init /\ [][NextRoutes]_vars

\* One debounced function, called with one of two arguments as time passes
NextDebounce ==
  \/ \E args \in {"x", "y"} :
       /\ executedFunction(args)
       /\ UNCHANGED <<editorVars, fileVars, pageVars, gitVars, histVars, serverBefore>>
  \/ \E t \in debounce.timers :
       /\ later(t)
       /\ UNCHANGED <<editorVars, fileVars, pageVars, gitVars, histVars, serverBefore>>
  \/ /\ PassTime
     /\ UNCHANGED <<editorVars, fileVars, pageVars, gitVars, histVars, serverBefore>>

SpecDebounce == Init /\ [][NextDebounce]_vars

\* Files are created and renamed, one call at a time, over a network that fails
NextRename ==
  \/ CreateFile(MaxCalls)
  \/ RenameFileAlone
  \/ Server
  \/ Network
  \/ CallDone
  \/ CallFailed

SpecRename == Init /\ [][NextRename]_vars

\* The file store with the timer that mirrors it into local storage
NextMirror ==
  \/ CreateFile(MaxCalls)
  \/ CreateFileUnnamed
  \/ SaveFile(MaxCalls)
  \/ DeleteFile(MaxCalls)
  \/ DeleteFolder(MaxCalls)
  \/ RenameFile(MaxCalls)
  \/ Server
  \/ Network
  \/ CallDone
  \/ CallFailed
  \/ SaveFilesToLocalStorage

SpecMirror == Init /\ [][NextMirror]_vars

\* The Editor page with its editor and its preview
NextPage ==
  \/ ShowNewTab
  \/ ShowFile
  \/ ShowTab
  \/ TypeInEditor
  \/ DebouncedOnChange
  \/ UpdatePreview
  \/ RefreshPreview

SpecPage == Init /\ [][NextPage]_vars

\* ------------------------------------------------------------- claims
\* C1: no two tabs of the editor store have the same id, whatever sequence of
\* createNewTab, openFile, closeTab, setActiveTab, updateTabContent,
\* saveActiveTab and formatActiveTab has run.
TabIdsUnique == \A i, j \in DOMAIN tabs : i # j => tabs[i].id # tabs[j].id

\* Two tabs are open and a saveActiveTab has just completed.
TabIdsUniqueWitness ==
  Len(tabs) = 2 /\ done.kind = "save" /\ done.ok /\ done.tab # Null

FileNamesUnique == \A i, j \in DOMAIN files : i # j => files[i].name # files[j].name

\* C4: every tab with isUnsaved = false has a file-store entry of its fileName
\* whose content is the tab's content.
DirtyFlagSound ==
  \A i \in DOMAIN tabs :
    ~tabs[i].isUnsaved =>
      \E k \in DOMAIN files :
        files[k].name = tabs[i].fileName /\ files[k].content = tabs[i].content

\* C5: every tab's language is getLanguageFromFileName of its current fileName.
LanguageFollowsFileName ==
  \A i \in DOMAIN tabs : tabs[i].language = getLanguageFromFileName(tabs[i].fileName)

Pairs(fs) == {<<fs[i].name, fs[i].content>> : i \in DOMAIN fs}

ServerPairs == {<<n, server[n]>> : n \in DOMAIN server}

\* C7: once every call has completed without error, the client's (name,
\* content) pairs are the server's.
ClientAgreesWithServer == (ops = {} /\ "err" \notin outcomes) => Pairs(files) = ServerPairs

\* C8: when saveActiveTab completes for tab T, the entry named T.fileName holds
\* the content T had when the save was invoked, and no other entry has changed.
SaveWritesTabContent ==
  (done.kind = "save" /\ done.ok /\ done.tab \in TabIds) =>
    /\ \E k \in DOMAIN files : files[k].name = TabOf(done.tab).fileName
    /\ \A k \in DOMAIN files :
         files[k].name = TabOf(done.tab).fileName => files[k].content = done.content
    /\ WithoutName(files, TabOf(done.tab).fileName)
         = WithoutName(done.before, TabOf(done.tab).fileName)

\* C8, as the code has it: when saveActiveTab completes for tab T, the entry
\* named by the file name this call saved under (T's fileName at the
\* invocation, the name entered at the prompt, or the save-as name) holds the
\* content T had when the save was invoked, and no other entry has changed.
SaveWritesSavedName ==
  (done.kind = "save" /\ done.ok /\ done.tab # Null) =>
    /\ \E k \in DOMAIN files : files[k].name = done.name
    /\ \A k \in DOMAIN files : files[k].name = done.name => files[k].content = done.content
    /\ WithoutName(files, done.name)
         = WithoutName(done.before, done.name)

\* A save of an edited tab has completed while another entry was in the list:
\* the saved content differs from the tab's content by now.
SaveWritesSavedNameWitness ==
  /\ done.kind = "save" /\ done.ok /\ done.tab \in TabIds
  /\ Len(files) = 2
  /\ TabOf(done.tab).content # done.content

\* C9: once edits and tab switches have stopped and the debounce timers have
\* fired, htmlContent is the content of the active HTML tab.
PreviewShowsActiveTab ==
  (~changeTimer.set /\ ~previewTimer.set /\ CurrentTab(tabs, activeTab) # 0) =>
    (tabs[CurrentTab(tabs, activeTab)].language = "html" =>
       htmlContent = tabs[CurrentTab(tabs, activeTab)].content)

\* C10: an edit that the editor reports is applied to the tab that was active
\* when the user typed it.
EditAppliedToActiveTab == done.kind = "edit" => done.tab = done.typed

\* C11: closeTab(id) removes exactly the tab with that id: every other tab
\* stays in tabs in the same order with its fields unchanged, activeTab is
\* unchanged when the closed tab was not the active one, theme is unchanged, and
\* with an id that no tab has the whole state of the editor store is unchanged.
CloseTabRemovesOneTab ==
  [][done'.kind = "closeTab" =>
       IF \E i \in DOMAIN tabs : tabs[i].id = done'.tab
       THEN /\ \E i \in DOMAIN tabs :
                 /\ tabs[i].id = done'.tab
                 /\ tabs' = SubSeq(tabs, 1, i - 1) \o SubSeq(tabs, i + 1, Len(tabs))
            /\ \A k \in DOMAIN tabs' : tabs'[k].id # done'.tab
            /\ (done'.tab # activeTab => activeTab' = activeTab)
            /\ UNCHANGED <<theme, nextId, session>>
       ELSE UNCHANGED editorVars]_vars

\* The middle one of three tabs has just been closed while another was active.
CloseTabRemovesOneTabWitness ==
  /\ done.kind = "closeTab" /\ Len(done.tabsBefore) = 3
  /\ done.tabsBefore[2].id = done.tab /\ done.activeBefore # done.tab
  /\ Len(tabs) = 2

TreeHoldsFilesAndFolders ==
  FileNamesUnique =>
    LET tree == buildFileTree(files)
        Slashes(name) == {k \in DOMAIN name : name[k] = "/"}
        Prefixes(name) == {SubSeq(name, 1, k - 1) : k \in Slashes(name)}
        Dir(name) == IF Slashes(name) = {} THEN << >>
                     ELSE SubSeq(name, 1, (CHOOSE k \in Slashes(name) :
                                              \A j \in Slashes(name) : j <= k) - 1)
    IN /\ {n \in tree : ~n.isFolder}
            = {[path |-> files[i].name, isFolder |-> FALSE,
                parent |-> Dir(files[i].name)] : i \in DOMAIN files}
       /\ {n.path : n \in {m \in tree : m.isFolder}}
            = UNION {Prefixes(files[i].name) : i \in DOMAIN files} \ {<< >>}
       /\ \A m, n \in tree : (m.path = n.path /\ m.isFolder = n.isFolder) => m = n

\* C14: in every state of the GitHub store, isAuthenticated is true exactly
\* when token is not null: across setToken (token valid, token invalid,
\* validation throwing), clearToken and the load from local storage.
AuthenticatedIffToken == github.isAuthenticated <=> (github.token # "null")

\* The store is authenticated with one token and holds its user while the
\* validation of another token has been answered with 401 and setToken has not
\* gone on yet.
AuthenticatedIffTokenWitness ==
  /\ github.isAuthenticated /\ github.token = "tokenB"
  /\ \E o \in gitOps : o.kind = "validate" /\ o.token = "tokenA" /\ o.pc = "401"
  /\ github.user = "tokenB"

\* C15: when closeTab closes the active tab, at index i, the new activeTab is
\* the tab that was at index i+1 if there is one, otherwise the tab that was at
\* index i-1, and it is null exactly when no tab remains.
CloseTabActivatesNeighbour ==
  [][(done'.kind = "closeTab" /\ done'.tab = activeTab) =>
       \A i \in DOMAIN tabs :
         tabs[i].id = activeTab =>
           /\ activeTab' = IF i + 1 \in DOMAIN tabs THEN tabs[i + 1].id
                            ELSE IF i - 1 \in DOMAIN tabs THEN tabs[i - 1].id
                            ELSE Null
           /\ (activeTab' = Null) <=> (tabs' = << >>)]_vars

\* The active tab, the middle one of three, has just been closed.
CloseTabActivatesNeighbourWitness ==
  /\ done.kind = "closeTab" /\ Len(done.tabsBefore) = 3
  /\ done.tabsBefore[2].id = done.tab /\ done.activeBefore = done.tab
  /\ activeTab = done.tabsBefore[3].id

\* C16: openFile(fileName, content), when a tab with that fileName exists, adds
\* no tab, leaves every tab as it is (the passed content is ignored) and makes
\* the first tab with that fileName active; when no such tab exists it appends
\* exactly one tab with that content and isUnsaved = false and makes it active.
OpenFileReusesTab ==
  [][done'.kind = "openFile" =>
       IF \E i \in DOMAIN tabs : tabs[i].fileName = done'.name
       THEN /\ tabs' = tabs
            /\ \E i \in DOMAIN tabs :
                 /\ tabs[i].fileName = done'.name
                 /\ \A j \in 1..(i - 1) : tabs[j].fileName # done'.name
                 /\ activeTab' = tabs[i].id
       ELSE /\ Len(tabs') = Len(tabs) + 1
            /\ SubSeq(tabs', 1, Len(tabs)) = tabs
            /\ tabs'[Len(tabs')].fileName = done'.name
            /\ tabs'[Len(tabs')].content = done'.content
            /\ ~tabs'[Len(tabs')].isUnsaved
            /\ activeTab' = tabs'[Len(tabs')].id]_vars

\* openFile has just been called for a file that two tabs have open, both with
\* another content than the file's, while the second of them was active.
OpenFileReusesTabWitness ==
  /\ done.kind = "openFile" /\ Len(done.tabsBefore) = 2
  /\ \A i \in 1..2 : /\ done.tabsBefore[i].fileName = done.name
                      /\ done.tabsBefore[i].content # done.content
  /\ done.activeBefore = done.tabsBefore[2].id
  /\ activeTab = done.tabsBefore[1].id

\* C17: in every state reached through createNewTab, openFile, closeTab and
\* setActiveTab with ids of existing tabs, an editor with open tabs has one of
\* them active: if tabs is non-empty then activeTab is not null.
OpenTabsHaveActive == tabs # << >> => activeTab # Null

\* The active tab has just been closed and tabs remain.
OpenTabsHaveActiveWitness ==
  /\ done.kind = "closeTab" /\ done.tab = done.activeBefore
  /\ Len(done.tabsBefore) = 2 /\ Len(tabs) = 1

\* C18: createFile(name, content) with an empty name, or with a name already
\* present in files, rejects with an error, sends no request to the server,
\* leaves files unchanged, and ends with loading = false and error set to the
\* message.
CreateFileRejects ==
  [][\A n \in TabNames :
       LET Sent == \E o \in ops' : /\ o.kind = "create" /\ o.name = n
                                    /\ \A q \in ops : q.id # o.id
           Returned == /\ done' # done /\ ops \subseteq ops'
                       /\ done'.kind = "create" /\ done'.name = n
       IN ((n = NameEmpty \/ Exists(n)) /\ (Sent \/ Returned)) =>
            /\ ~done'.ok
            /\ ops' = ops /\ server' = server
            /\ files' = files
            /\ ~loading'
            /\ error'.msg = IF n = NameEmpty THEN "File name cannot be empty"
                            ELSE "already exists"]_vars

\* createFile has just rejected the name of the one file in the list.
CreateFileRejectsWitness ==
  /\ done.kind = "create" /\ ~done.ok /\ done.name \in Names(files)
  /\ Len(files) = 1 /\ error.msg = "already exists" /\ ops = {}

\* C19: when the server request of createFile, saveFile, deleteFile,
\* deleteFolder or renameFile fails, the client's files list is as it was
\* before the call (no step but the successful end of a call changes it),
\* error is set to a message and loading is false again.
FailedCallKeepsFiles ==
  [][/\ (files' # files) => done'.ok
     /\ (done' # done /\ ~done'.ok /\ ops' # ops
         /\ done'.kind \in {"create", "save", "delete", "deleteFolder", "rename"}) =>
          (files' = files /\ error'.msg # "null" /\ ~loading')]_vars

\* A renameFile has just failed, with the server answering 404 to its DELETE,
\* while the list held two files.
FailedCallKeepsFilesWitness ==
  /\ done.kind = "rename" /\ ~done.ok /\ error.msg = "404"
  /\ Len(files) = 2 /\ ~loading /\ ops = {}

\* C20: renameFile is all-or-nothing with respect to the server: when it
\* returns false, whether its POST or its DELETE failed, the server's files are
\* the same as before the call.
RenameAllOrNothing ==
  [][\A o \in ops :
       (o.kind = "rename" /\ o.pc = "err" /\ o \notin ops') =>
         server' = serverBefore]_vars

\* C21: a deleteFolder(p) that returns true removes, from the client's files
\* list and from the server, exactly the files whose name is p or starts with
\* p followed by '/'; every other file is kept.
DeleteFolderRemovesFolder ==
  [][(done' # done /\ done'.kind = "deleteFolder" /\ done'.ok) =>
       LET p == done'.name
       IN /\ files' = WithoutFolder(files, p)
          /\ \A n \in DOMAIN server' : ~InFolder(n, p)
          /\ \A n \in DOMAIN server :
               ~InFolder(n, p) => (n \in DOMAIN server' /\ server'[n] = server[n])]_vars

\* C22: after loadFilesFromLocalStorage has completed with every server request
\* succeeding, every file of the client's files list, whatever its content,
\* is on the server with the same content.
LoadSynchronizesServer ==
  (done.kind = "load" /\ done.ok) =>
    \A i \in DOMAIN files :
      HasFile(files[i].name) /\ server[files[i].name] = files[i].content

\* C23: for a function wrapped by debounce(func, wait), func runs only when wait
\* has passed since the most recent call, once per burst of calls (after a
\* call, either func has run once or its timer is pending), and with the
\* arguments of the most recent call.
DebounceRunsOncePerBurst ==
  [][/\ (debounce'.runs # debounce.runs /\ debounce'.runs > 0) =>
          /\ debounce.now >= debounce.lastCall + WaitTicks
          /\ debounce'.ran = debounce.lastArgs
          /\ debounce'.runs = 1
     /\ debounce'.called =>
          \/ debounce'.runs = 1 /\ debounce'.timers = {}
          \/ debounce'.runs = 0 /\ Cardinality(debounce'.timers) = 1]_vars

\* func has run with the arguments of the second call of a burst of two calls
\* with different arguments.
DebounceRunsOncePerBurstWitness ==
  /\ debounce.runs = 1 /\ debounce.burst = 2
  /\ debounce.ran = "y" /\ debounce.lastArgs = "y" /\ debounce.lastCall > 0

\* C24: no edit is lost: a change typed into the editor, pending in the
\* debounced onChange, stays pending until the user types again or until it
\* reaches the working copy of the tab that was active when it was typed, also
\* when the user switches to another tab before the timer fires.
TypedEditReachesItsTab ==
  [][(changeTimer.set /\ changeTimer.tab # Null) =>
       \/ changeTimer' = changeTimer
       \/ changeTimer'.set /\ changeTimer'.tab # Null
       \/ /\ IndexOfId(tabs', changeTimer.tab) # 0
          /\ tabs'[IndexOfId(tabs', changeTimer.tab)].content = changeTimer.val]_vars

\* C25: PUT /api/files/:name is an upsert that round-trips: for any name and any
\* defined content, after the PUT has succeeded GET /api/files/:name returns
\* that content, whether or not the file existed before, and no other stored
\* file is changed.
PutThenGetRoundTrips ==
  [][\A n \in TreeNames \cup FileNames :
       (done'.kind = "PUT" /\ done'.name = n) =>
         /\ done'.ok = (done'.content # "undefined")
         /\ done'.ok => (getFileRoute(n))' = [status |-> 200, name |-> n,
                                               content |-> done'.content]
         /\ \A m \in (TreeNames \cup FileNames) \ {n} :
              (getFileRoute(m))' = getFileRoute(m)]_vars

\* A PUT of an empty content has just created its file next to two others.
PutThenGetRoundTripsWitness ==
  /\ done.kind = "PUT" /\ done.ok /\ done.content = ""
  /\ getFileRoute(done.name).status = 200 /\ getFileRoute(done.name).content = ""
  /\ Cardinality(DOMAIN server) = 3

\* C26: a rejected token is not kept: once setToken has ended with false
\* (authError holds its message), the store's token is null, the GitHub
\* service has no token and so reports not authenticated, and localStorage has
\* no 'github_token' item, so that a store built by a reload is not
\* authenticated.
RejectedTokenNotKept ==
  (github.authError # "null") =>
    /\ github.token = "null" /\ ~github.isAuthenticated
    /\ gitService = "null"
    /\ lsToken = "null"
    /\ ~GitHubStore(lsToken).isAuthenticated

\* C27: in every reachable state of the GitHub store, if isAuthenticated is
\* false then user is null and repos and gists are empty, also when clearToken
\* runs while fetchUserProfile, fetchUserRepos or fetchUserGists is awaiting
\* its response.
SignedOutHasNoData ==
  ~github.isAuthenticated =>
    (github.user = "null" /\ github.repos = "[]" /\ github.gists = "[]")

====
